---- MODULE Spec2Model ----
(***************************************************************************)
(* The cache-aside note service of fastapi-crud-app: the handlers of      *)
(* main.py (create_note, update_note, read_notes, read_single_note,       *)
(* delete_note) running as concurrent requests against the Note Store     *)
(* (database.py, table notes) and the Redis side cache (redis_cache.py),  *)
(* each behind the token check of auth.py (decode_access_token).          *)
(*                                                                         *)
(* A request is a process.  Every `await` on the store or on the cache is *)
(* one atomic step of the request; the steps of different requests        *)
(* interleave freely (one asyncio event loop, no lock in the handlers).   *)
(* A store call may raise SQLAlchemyError and a cache call may raise a    *)
(* Redis error; a failed call leaves its backend unchanged.               *)
(*                                                                         *)
(* The credential service (register_user and login of main.py, the users  *)
(* table, the hashing and token functions of auth.py) has its own         *)
(* specification, AuthSpec; Spec is the note service.                     *)
(*                                                                         *)
(* database.execute is taken to return the new id for an INSERT and a     *)
(* truthy value for an UPDATE or DELETE exactly when a row matched, which *)
(* is what the handlers' `if not result` tests assume.                    *)
(***************************************************************************)
EXTENDS Integers, Sequences, FiniteSets, TLC

\* ------------------------------------------------------------ bounds
\* the requests that may be in flight at once
NumProcs == 2
\* the notes that are ever created (the store gives them the ids 1..MaxNotes)
MaxNotes == 1
\* the ids a request may name: the created ones and ids of no note
MaxId == 2
\* the clock readings and expiry times of tokens
MaxTime == 1
\* the wall clock of the credential service, in minutes: its last reading
\* and the minutes between two readings
MaxClock == 45
ClockStep == 15

Procs == 1..NumProcs
Ids == 1..MaxId
Texts == {"a", "b"}
Times == 0..MaxTime

\* ------------------------------------------------------------ data
\* schemas.NoteIn: the validated request payload.
NoteIn == [text : Texts, completed : BOOLEAN]
\* schemas.Note: a row of the notes table, and the response model.
Note == [id : Ids, text : Texts, completed : BOOLEAN]

NoPayload == [text |-> "", completed |-> FALSE]

\* {**note.dict(), "id": id}: the dict built by create_note and update_note.
\* Its keys are in insertion order: text, completed, id.
NoteData(pl, i) == [text |-> pl.text, completed |-> pl.completed, id |-> i]
HandlerKeys == <<"text", "completed", "id">>
\* dict(data) of a fetched row: the keys are in column order.
RowKeys == <<"id", "text", "completed">>

\* json.dumps of a dict: the text of a JSON object, taken as its members, each
\* a <<key, value>> pair.  The order of the members in the text (HandlerKeys
\* or RowKeys) is not kept: json.loads does not depend on it.
Dumps(keys, d) == {<<keys[k], d[keys[k]]>> : k \in 1..Len(keys)}
\* json.loads: the object with the members of the text.
Loads(s) ==
    [k \in {m[1] : m \in s} |-> LET m == CHOOSE x \in s : x[1] = k IN m[2]]

\* No entry in the cache (redis.get returns None): falsy like the empty text.
NoEntry == {}

\* The cache key f"note:{note_id}".
Key(i) == <<"note", i>>
Keys == {Key(i) : i \in Ids}

\* ------------------------------------------------------------ tokens
SECRET_KEY == "k1"
SigningKeys == {"k1", "k2"}
\* A presented bearer token: the subject and expiry it encodes, the key that
\* signed it, and whether it is a well-formed JWT at all.
Tokens == [sub : {"alice"}, exp : Times, key : SigningKeys, wf : BOOLEAN]

\* jwt.decode(token, SECRET_KEY, algorithms=[ALGORITHM]): TRUE when it
\* returns the payload, FALSE when it raises JWTError (malformed, signature
\* mismatch, or exp earlier than now).
JwtDecodes_mut(tok, now) == tok.wf /\ tok.key = SECRET_KEY
JwtDecodes(tok, now) == tok.wf /\ tok.key = SECRET_KEY /\ tok.exp >= now

\* jwt.encode(to_encode, SECRET_KEY, algorithm=ALGORITHM): the claims, signed.
JwtEncode(claims, key) ==
    [sub |-> claims.sub, exp |-> claims.exp, key |-> key, wf |-> TRUE]

\* timedelta(minutes=ACCESS_TOKEN_EXPIRE_MINUTES), the default of the setting
ACCESS_TOKEN_EXPIRE_MINUTES == 30
\* timedelta(minutes=15), used when no expires_delta (or a zero one) is given
DefaultExpireMinutes == 15

\* create_access_token(data, expires_delta) called at the time `at`.
create_access_token(data, expires_delta, at) ==
    LET expire == at + (IF expires_delta # 0 THEN expires_delta
                        ELSE DefaultExpireMinutes)
    IN JwtEncode([sub |-> data.sub, exp |-> expire], SECRET_KEY)

\* The payload jwt.decode returns for a token it accepts.
JwtPayload(tok) == [sub |-> tok.sub, exp |-> tok.exp]

\* decode_access_token: the payload, or HTTPException 401.
decode_access_token_mut(tok, now) == TRUE
decode_access_token(tok, now) == JwtDecodes(tok, now)

\* What a request can present: <<whether the token is valid at the time of
\* the request, whether decode_access_token let the request through>>.
Presented ==
    {<<JwtDecodes(tok, now), decode_access_token(tok, now)>> :
        tok \in Tokens, now \in Times}

\* ------------------------------------------------------------ state
VARIABLES
    store,      \* notes table: id -> <<>> (no row) or <<Note>>
    nextId,     \* the id the next INSERT is given (serial primary key)
    cache,      \* Redis: key -> NoEntry or the serialized note
    pc,         \* per request slot: the await the request is suspended at
    op,         \* per request slot: the handler it runs
    nid,        \* per request slot: note_id (last_record_id for create)
    payload,    \* per request slot: the NoteIn payload
    page,       \* per request slot: <<skip, take>> of read_notes
    row,        \* per request slot: `data`, the row read_single_note fetched
    acc,        \* observer, per request: what it has done to the backends
    resp,       \* observer: the response just sent, in the state it is sent in
    mode,       \* observer: how the requests now running overlap
    pend,       \* observer: the payloads of the finished updates of a duo
    last,       \* observer: the last change of a note that ran undisturbed
    serial,     \* observer: no two requests have overlapped so far
    sound,      \* observer: no cache call has failed so far
    seen,       \* observer: the note the last Read returned, nothing since
    users,      \* users table: the set of its rows
    nextUid,    \* the id the next INSERT into users is given
    apc,        \* per request slot: the await a register or login is at
    aarg,       \* per request slot: the username and password it was sent
    now,        \* the wall clock (datetime.utcnow), in minutes
    issued,     \* observer: the last token login issued, for whom and when
    aresp       \* observer: the response just sent by register, login or
                \* the token check

\* the note service
nvars == <<store, nextId, cache, pc, op, nid, payload, page, row,
           acc, resp, mode, pend, last, serial, sound, seen>>

\* the credential service
avars == <<users, nextUid, apc, aarg, now, issued, aresp>>

vars == <<nvars, avars>>

NoResult == [kind |-> "none", body |-> <<>>]
\* the handler returned: body is the list of notes in the response
Ok(b) == [kind |-> "ok", body |-> b]
\* HTTPException(status_code=404)
NotFound == [kind |-> "not_found", body |-> <<>>]
\* HTTPException(status_code=500, detail="Database error: ...")
DbError_mut == [kind |-> "not_found", body |-> <<>>]
DbError == [kind |-> "db_error", body |-> <<>>]
\* an exception no handler catches: the framework answers 500
ServerError == [kind |-> "server_error", body |-> <<>>]
\* HTTPException(status_code=401) of decode_access_token
Unauthorized == [kind |-> "unauthorized", body |-> <<>>]

\* sr, sw, cr, cw: the store reads, store writes, cache reads and cache writes
\* the request has issued; wrote: its store write changed a row; rowThere: the
\* row was in the store when its store call ran; valid: its token was valid;
\* alone (kept for an update or delete): no other request on the same note
\* id has been running with it; stale (kept for an update or delete): the
\* cache entry of its id disagreed with the store when it began;
\* conns: the connections of the Redis client it made (get_redis_client)
\* that are open: nothing in the handlers closes the client.
NoAcc == [sr |-> 0, sw |-> 0, cr |-> 0, cw |-> 0, wrote |-> FALSE,
          rowThere |-> FALSE, valid |-> TRUE, alone |-> TRUE,
          stale |-> FALSE, conns |-> 0]

\* last: the operation (create, update, delete) that completed with success
\* while no request outside it was running, with nothing begun since but
\* requests running alone.  notes: what it wrote (two notes for a duo of
\* updates); evicted: the cache dropped an entry since.  The op "cachefail"
\* stands for a create or update whose store write was applied and whose
\* cache write raised.
NoLast == [op |-> "none", id |-> 0, notes |-> {}, evicted |-> FALSE]

\* seen: the note a Read that ran alone has returned for id, with no request
\* begun since but Reads running alone, and no eviction.
NoSeen == [id |-> 0, note |-> <<>>]

\* ---- the credential service: what it stores and answers
Usernames == {"alice", "bob"}
Passwords == {"p", "q"}
Salts == {1, 2}
Clock == {t \in 0..MaxClock : t % ClockStep = 0}

\* schemas.UserIn
UserIn == [username : Usernames, password : Passwords]
NoUserIn == [username |-> "", password |-> ""]

\* get_password_hash (pwd_context.hash, bcrypt): the digest of the password
\* under a salt drawn for the call; the salt is kept in the hash.
get_password_hash(password, salt) ==
    [scheme |-> "bcrypt", salt |-> salt, digest |-> <<salt, password>>]

\* verify_password (pwd_context.verify): hashes the plain password under the
\* salt of the stored hash and compares the digests.
verify_password(plain_password, hashed_password) ==
    get_password_hash(plain_password, hashed_password.salt).digest
        = hashed_password.digest

\* users.select().where(users.c.username == name), fetch_one: a row or None.
FetchUser(us, name) ==
    IF \E r \in us : r.username = name
    THEN <<CHOOSE r \in us : r.username = name>>
    ELSE <<>>

\* What a caller gets: the status code, the detail of an HTTPException, and
\* the body of a successful answer.
\* register_user: UserOut (response_model drops the message)
Registered(uid, name) ==
    [status |-> 200, detail |-> "", body |-> <<[id |-> uid, username |-> name]>>]
\* HTTPException(status_code=400, detail="Username already registered")
DuplicateUser ==
    [status |-> 400, detail |-> "Username already registered", body |-> <<>>]
\* login, `if not db_user`: HTTPException(400, "Incorrect username or password")
NoUserFailure_mut ==
    [status |-> 404, detail |-> "User not found", body |-> <<>>]
NoUserFailure ==
    [status |-> 400, detail |-> "Incorrect username or password", body |-> <<>>]
\* login, `if not verify_password(...)`: HTTPException(400, "Incorrect ...")
WrongPasswordFailure ==
    [status |-> 400, detail |-> "Incorrect username or password", body |-> <<>>]
\* login: {"access_token": ..., "token_type": "bearer"}
LoggedIn(token) ==
    [status |-> 200, detail |-> "",
     body |-> <<[access_token |-> token, token_type |-> "bearer"]>>]
\* an exception no handler catches
Uncaught == [status |-> 500, detail |-> "Internal Server Error", body |-> <<>>]
\* decode_access_token: HTTPException(401, "Invalid or expired token")
InvalidToken ==
    [status |-> 401, detail |-> "Invalid or expired token", body |-> <<>>]
\* decode_access_token returned the payload to the handler
Validated(claims) == [status |-> 200, detail |-> "", body |-> <<claims>>]

\* issued: the token the last successful login returned, the username it was
\* issued for and the clock reading at which it was issued.
NoIssued == [token |-> <<>>, sub |-> "", at |-> 0]

\* aresp: the answer just sent.  existed: the username was in the users table
\* when the request's last store call ran; matched: the password verified;
\* fault: "store" when a store call failed for a reason of the store's
\* (connection lost), "unique" when the INSERT broke the unique constraint;
\* how, at: the token presented to the token check ("genuine": the issued
\* token as issued, "resigned": signed with another key, "garbled": not a
\* JWT) and the clock reading at the check.
NoAResp == [op |-> "none", username |-> "", result |-> Uncaught,
            existed |-> FALSE, matched |-> FALSE, fault |-> "none",
            how |-> "none", at |-> 0]

NoResp == [op |-> "none", id |-> 0, payload |-> NoPayload, result |-> NoResult,
           acc |-> NoAcc, fault |-> "none", mode |-> "solo", after |-> NoLast,
           seen |-> NoSeen]

Ops == {"create", "update", "delete", "read", "list"}
Mutations == {"create", "update", "delete"}
\* the handlers that change a note that exists
Writes == {"update", "delete"}

Active(p) == pc[p] # "idle"
Quiescent == \A p \in Procs : ~Active(p)

\* The first await of each handler.
FirstPc_mut(o) ==
    CASE o = "create" -> "c_store"
      [] o = "update" -> "u_cache"
      [] o = "delete" -> "d_store"
      [] o = "read"   -> "r_get"
      [] o = "list"   -> "l_store"
FirstPc(o) ==
    CASE o = "create" -> "c_store"
      [] o = "update" -> "u_store"
      [] o = "delete" -> "d_store"
      [] o = "read"   -> "r_get"
      [] o = "list"   -> "l_store"

Init ==
    /\ store = [i \in Ids |-> <<>>]
    /\ nextId = 1
    /\ cache = [k \in Keys |-> NoEntry]
    /\ pc = [p \in Procs |-> "idle"]
    /\ op = [p \in Procs |-> "none"]
    /\ nid = [p \in Procs |-> 0]
    /\ payload = [p \in Procs |-> NoPayload]
    /\ page = [p \in Procs |-> <<0, 0>>]
    /\ row = [p \in Procs |-> <<>>]
    /\ acc = [p \in Procs |-> NoAcc]
    /\ resp = NoResp
    /\ mode = "solo"
    /\ pend = {}
    /\ last = NoLast
    /\ serial = TRUE
    /\ sound = TRUE
    /\ seen = NoSeen
    /\ users = {}
    /\ nextUid = 1
    /\ apc = [p \in Procs |-> "idle"]
    /\ aarg = [p \in Procs |-> NoUserIn]
    /\ now = 0
    /\ issued = NoIssued
    /\ aresp = NoAResp

\* ------------------------------------------------------------ store
\* notes.insert().values(text=..., completed=...): the row gets the next id.
InsertEffect(s, i, pl) == [s EXCEPT ![i] = <<NoteData(pl, i)>>]

\* The value of database.execute for an UPDATE or DELETE ... WHERE id = i.
RowsAffected_mut(s, i) == 1
RowsAffected(s, i) == IF i \in Ids /\ s[i] # <<>> THEN 1 ELSE 0

\* notes.update().where(notes.c.id == i).values(text=..., completed=...)
UpdateEffect_mut(s, i, pl) == s
UpdateEffect(s, i, pl) ==
    IF i \in Ids /\ s[i] # <<>> THEN [s EXCEPT ![i] = <<NoteData(pl, i)>>] ELSE s

\* notes.delete().where(notes.c.id == i)
DeleteEffect(s, i) ==
    IF i \in Ids /\ s[i] # <<>> THEN [s EXCEPT ![i] = <<>>] ELSE s

\* notes.select().where(notes.c.id == i), fetch_one: the row or None.
FetchOne(s, i) == IF i \in Ids THEN s[i] ELSE <<>>

\* The orders in which a SELECT without ORDER BY may return the rows S.
Orderings(S) ==
    {f \in [1..Cardinality(S) -> S] : \A a, b \in 1..Cardinality(S) : a # b => f[a] # f[b]}

\* notes.select().offset(skip).limit(take) over rows in the order `ord`.
Window_mut(s, ord, skip, take) ==
    LET n == Len(ord)
        lo == skip + 1
        hi == IF skip + take < n THEN skip + take ELSE n
    IN [k \in 1..(IF hi >= lo THEN hi - lo + 1 ELSE 0) |->
           IF cache[Key(ord[lo + k - 1])] # NoEntry
           THEN Loads(cache[Key(ord[lo + k - 1])])
           ELSE s[ord[lo + k - 1]][1]]
Window(s, ord, skip, take) ==
    LET n == Len(ord)
        lo == skip + 1
        hi == IF skip + take < n THEN skip + take ELSE n
    IN [k \in 1..(IF hi >= lo THEN hi - lo + 1 ELSE 0) |-> s[ord[lo + k - 1]][1]]

\* ------------------------------------------------------------ cache
\* redis.set(f"note:{i}", value)
CacheSet_mut(c, i, v) == c
CacheSet(c, i, v) == [c EXCEPT ![Key(i)] = v]

\* redis.delete(f"note:{i}"): no error when the key is missing.
CacheDelete_mut(c, i) == c
CacheDelete(c, i) == [c EXCEPT ![Key(i)] = NoEntry]

\* redis.get(f"note:{i}"): the value, or None
CacheGet_mut(c, i) == NoEntry
CacheGet(c, i) == c[Key(i)]

\* The cache entry of note i, when there is one, is the store's row of i.
Agrees(i) ==
    cache[Key(i)] # NoEntry =>
        /\ store[i] # <<>>
        /\ Loads(cache[Key(i)]) = store[i][1]

Agreement == \A i \in Ids : Agrees(i)

\* ------------------------------------------------------------ requests
\* The request in slot p goes on to its await l, having done a so far.
Goto(p, l, a) ==
    /\ UNCHANGED avars
    /\ pc' = [pc EXCEPT ![p] = l]
    /\ acc' = [acc EXCEPT ![p] = a]
    /\ resp' = NoResp
    /\ UNCHANGED <<op, payload, page, mode, pend, last, serial, sound, seen>>

\* What `last` becomes when the request in slot p completes with res.
LastAfter(p, res) ==
    LET note == NoteData(payload[p], nid[p])
        wrote == IF op[p] = "delete" THEN {} ELSE {note}
    IN CASE mode = "solo" ->
              IF op[p] \notin Mutations THEN last
              ELSE IF res.kind = "ok"
                   THEN [op |-> op[p], id |-> nid[p], notes |-> wrote,
                         evicted |-> FALSE]
                   ELSE IF res.kind = "server_error" /\ op[p] # "delete"
                   THEN [op |-> "cachefail", id |-> nid[p], notes |-> wrote,
                         evicted |-> FALSE]
                   ELSE NoLast
         [] mode = "duo" ->
              IF res.kind = "ok" /\ \A q \in Procs \ {p} : ~Active(q)
              THEN [op |-> "update", id |-> nid[p], notes |-> pend \cup {note},
                    evicted |-> FALSE]
              ELSE NoLast
         [] OTHER -> NoLast

\* The request in slot p ends: res is sent, a is what the request did, f the
\* backend whose call raised ("none", "store", "cache").  The slot is free.
\* The handler drops its Redis client without closing it: whether the
\* client's connection is closed by then is up to the garbage collector.
Respond(p, res, a, f) ==
    /\ UNCHANGED avars
    /\ \E c \in {0, a.conns} :
          resp' = [op |-> op[p], id |-> nid[p], payload |-> payload[p],
                   result |-> res, acc |-> [a EXCEPT !.conns = c], fault |-> f,
                   mode |-> mode, after |-> last, seen |-> seen]
    /\ seen' = IF op[p] = "read" /\ mode = "solo" /\ res.kind = "ok"
               THEN [id |-> nid[p], note |-> res.body]
               ELSE NoSeen
    /\ pc' = [pc EXCEPT ![p] = "idle"]
    /\ op' = [op EXCEPT ![p] = "none"]
    /\ payload' = [payload EXCEPT ![p] = NoPayload]
    /\ page' = [page EXCEPT ![p] = <<0, 0>>]
    /\ nid' = [nid EXCEPT ![p] = 0]
    /\ row' = [row EXCEPT ![p] = <<>>]
    /\ acc' = [acc EXCEPT ![p] = NoAcc]
    /\ sound' = (sound /\ f # "cache")
    /\ UNCHANGED serial
    /\ last' = LastAfter(p, res)
    /\ pend' = IF mode = "duo" /\ res.kind = "ok" /\ \E q \in Procs \ {p} : Active(q)
               THEN {NoteData(payload[p], nid[p])} ELSE {}
    /\ mode' = IF mode = "duo" /\ res.kind # "ok" THEN "crowd" ELSE mode

\* A request arrives in the free slot p.  Depends(decode_access_token) runs
\* first: `ok` is whether it returned (the handler body then runs), `valid`
\* whether the token was a valid one.
Begin(p, o, i, pl, pg, valid, ok) ==
    /\ pc[p] = "idle"
    /\ UNCHANGED avars
    \* the notes are bounded: another insert must still fit
    /\ (o = "create" /\ ok) =>
         nextId + Cardinality({q \in Procs : pc[q] = "c_store"}) <= MaxNotes
    /\ LET others == {q \in Procs \ {p} : Active(q)}
           duo == /\ mode = "solo" /\ o = "update"
                  /\ \E q \in others :
                        /\ others = {q} /\ op[q] = "update"
                        /\ nid[q] = i /\ payload[q] # pl
           same == {q \in others : i # 0 /\ nid[q] = i}
       IN IF ok
          THEN /\ pc' = [pc EXCEPT ![p] = FirstPc(o)]
               /\ op' = [op EXCEPT ![p] = o]
               /\ nid' = [nid EXCEPT ![p] = i]
               /\ payload' = [payload EXCEPT ![p] = pl]
               /\ page' = [page EXCEPT ![p] = pg]
               /\ acc' = [q \in Procs |->
                            IF q = p
                            THEN [NoAcc EXCEPT !.valid = valid,
                                               !.alone = (o \in Writes => same = {}),
                                               !.stale = (o \in Writes /\ ~Agrees(i))]
                            ELSE IF q \in same /\ op[q] \in Writes
                            THEN [acc[q] EXCEPT !.alone = FALSE]
                            ELSE acc[q]]
               /\ seen' = IF o = "read" /\ others = {} THEN seen ELSE NoSeen
               /\ resp' = NoResp
               /\ mode' = IF others = {} THEN "solo"
                          ELSE IF duo THEN "duo" ELSE "crowd"
               /\ last' = IF others = {} THEN last ELSE NoLast
               /\ pend' = {}
               /\ serial' = (serial /\ others = {})
               /\ UNCHANGED sound
          ELSE \* 401 before the handler body: the slot stays free
               /\ resp' = [NoResp EXCEPT !.op = o, !.result = Unauthorized,
                                         !.acc = [NoAcc EXCEPT !.valid = valid]]
               /\ UNCHANGED <<pc, op, nid, payload, page, acc, mode, last,
                              pend, serial, sound, seen>>
    /\ UNCHANGED <<store, nextId, cache, row>>

StartCreate(p) ==
    \E pl \in NoteIn, a \in Presented :
        Begin(p, "create", 0, pl, <<0, 0>>, a[1], a[2])

StartUpdate(p) ==
    \E i \in Ids, pl \in NoteIn, a \in Presented :
        Begin(p, "update", i, pl, <<0, 0>>, a[1], a[2])

StartDelete(p) ==
    \E i \in Ids, a \in Presented :
        Begin(p, "delete", i, NoPayload, <<0, 0>>, a[1], a[2])

StartRead(p) ==
    \E i \in Ids, a \in Presented :
        Begin(p, "read", i, NoPayload, <<0, 0>>, a[1], a[2])

StartList(p) ==
    \E skip \in 0..1, take \in 1..MaxId, a \in Presented :
        Begin(p, "list", 0, NoPayload, <<skip, take>>, a[1], a[2])

\* The request p issues one more call of kind f (sr, sw, cr, cw).
Count(p, f) == [acc[p] EXCEPT ![f] = @ + 1]
\* ... a store write: `there`, the row was in the store before the call;
\* `changed`, the store holds what the call was to write after it.
CountWrite(p, there, changed) ==
    [Count(p, "sw") EXCEPT !.rowThere = there, !.wrote = changed]
\* ... a cache call that was answered: the client of the request has
\* connected (a client connects at its first command and keeps the
\* connection in its pool).
CountCache(p, f) == [Count(p, f) EXCEPT !.conns = 1]

\* ------------------------------------------------------------ create_note
\* last_record_id = await database.execute(notes.insert()...)
CreateStore(p) ==
    /\ pc[p] = "c_store"
    /\ \/ /\ nextId <= MaxNotes /\ nextId \in Ids
          /\ store' = InsertEffect(store, nextId, payload[p])
          /\ nextId' = nextId + 1
          /\ nid' = [nid EXCEPT ![p] = nextId]
          /\ LET same == {q \in Procs \ {p} : Active(q) /\ nid[q] = nextId}
                 a == CountWrite(p, FALSE,
                                 store'[nextId] = <<NoteData(payload[p], nextId)>>)
             IN /\ pc' = [pc EXCEPT ![p] = "c_cache"]
                /\ acc' = [q \in Procs |->
                             IF q = p THEN a
                             ELSE IF q \in same /\ op[q] \in Writes
                             THEN [acc[q] EXCEPT !.alone = FALSE]
                             ELSE acc[q]]
                /\ resp' = NoResp
                /\ UNCHANGED <<op, payload, page, mode, pend, last, serial,
                               sound, seen>>
          /\ UNCHANGED <<row, avars>>
       \/ \* SQLAlchemyError -> HTTPException(500)
          /\ Respond(p, DbError, Count(p, "sw"), "store")
          /\ UNCHANGED <<store, nextId>>
    /\ UNCHANGED cache

\* await redis.set(f"note:{last_record_id}", json.dumps(note_data)); return note_data
CreateCache(p) ==
    /\ pc[p] = "c_cache"
    /\ LET note_data == NoteData(payload[p], nid[p]) IN
       \/ /\ cache' = CacheSet(cache, nid[p], Dumps(HandlerKeys, note_data))
          /\ Respond(p, Ok(<<note_data>>), CountCache(p, "cw"), "none")
       \/ \* the Redis error is no SQLAlchemyError: nothing catches it
          /\ Respond(p, ServerError, Count(p, "cw"), "cache")
          /\ UNCHANGED cache
    /\ UNCHANGED <<store, nextId>>

\* ------------------------------------------------------------ update_note
\* result = await database.execute(notes.update()...); if not result: 404
UpdateStore(p) ==
    /\ pc[p] = "u_store"
    /\ LET there == FetchOne(store, nid[p]) # <<>> IN
       \/ /\ store' = UpdateEffect(store, nid[p], payload[p])
          /\ IF RowsAffected(store, nid[p]) = 0
             THEN Respond(p, NotFound, CountWrite(p, there, FALSE), "none")
             ELSE /\ Goto(p, "u_cache",
                          CountWrite(p, there,
                              there /\ store'[nid[p]] = <<NoteData(payload[p], nid[p])>>))
                  /\ UNCHANGED <<nid, row>>
       \/ /\ Respond(p, DbError, CountWrite(p, there, FALSE), "store")
          /\ UNCHANGED store
    /\ UNCHANGED <<nextId, cache>>

\* await redis.set(f"note:{note_id}", json.dumps(note_data)); return note_data
UpdateCache(p) ==
    /\ pc[p] = "u_cache"
    /\ LET note_data == NoteData(payload[p], nid[p]) IN
       \/ /\ cache' = CacheSet(cache, nid[p], Dumps(HandlerKeys, note_data))
          /\ Respond(p, Ok(<<note_data>>), CountCache(p, "cw"), "none")
       \/ /\ Respond(p, ServerError, Count(p, "cw"), "cache")
          /\ UNCHANGED cache
    /\ UNCHANGED <<store, nextId>>

\* ------------------------------------------------------------ delete_note
\* result = await database.execute(notes.delete()...); if not result: 404
DeleteStore(p) ==
    /\ pc[p] = "d_store"
    /\ LET there == FetchOne(store, nid[p]) # <<>> IN
       \/ /\ store' = DeleteEffect(store, nid[p])
          /\ IF RowsAffected(store, nid[p]) = 0
             THEN Respond(p, NotFound, CountWrite(p, there, FALSE), "none")
             ELSE /\ Goto(p, "d_cache",
                          CountWrite(p, there, there /\ store'[nid[p]] = <<>>))
                  /\ UNCHANGED <<nid, row>>
       \/ /\ Respond(p, DbError, CountWrite(p, there, FALSE), "store")
          /\ UNCHANGED store
    /\ UNCHANGED <<nextId, cache>>

\* await redis.delete(f"note:{note_id}"); return {"message": ...}
DeleteCache(p) ==
    /\ pc[p] = "d_cache"
    /\ \/ /\ cache' = CacheDelete(cache, nid[p])
          /\ Respond(p, Ok(<<>>), CountCache(p, "cw"), "none")
       \/ /\ Respond(p, ServerError, Count(p, "cw"), "cache")
          /\ UNCHANGED cache
    /\ UNCHANGED <<store, nextId>>

\* ------------------------------------------------------------ read_single_note
\* cached_note = await redis.get(...); if cached_note: return json.loads(...)
ReadGet(p) ==
    /\ pc[p] = "r_get"
    /\ \/ LET cached_note == CacheGet(cache, nid[p]) IN
          IF cached_note # NoEntry
          THEN Respond(p, Ok(<<Loads(cached_note)>>), CountCache(p, "cr"), "none")
          ELSE Goto(p, "r_store", CountCache(p, "cr")) /\ UNCHANGED <<nid, row>>
       \/ \* raised outside the try block: nothing catches it
          Respond(p, ServerError, Count(p, "cr"), "cache")
    /\ UNCHANGED <<store, nextId, cache>>

\* data = await database.fetch_one(...); if not data: 404
ReadStore_mut(p) ==
    /\ pc[p] = "r_store"
    /\ \/ LET data == FetchOne(store, nid[p]) IN
          IF data = <<>>
          THEN /\ Respond(p, NotFound, Count(p, "sr"), "none")
               /\ cache' = CacheSet(cache, nid[p], Dumps(<<"id">>, [id |-> nid[p]]))
          ELSE /\ Goto(p, "r_fill", [Count(p, "sr") EXCEPT !.rowThere = TRUE])
               /\ row' = [row EXCEPT ![p] = data]
               /\ UNCHANGED <<nid, cache>>
       \/ Respond(p, DbError, Count(p, "sr"), "store") /\ UNCHANGED cache
    /\ UNCHANGED <<store, nextId>>
ReadStore(p) ==
    /\ pc[p] = "r_store"
    /\ \/ LET data == FetchOne(store, nid[p]) IN
          IF data = <<>>
          THEN Respond(p, NotFound, Count(p, "sr"), "none")
          ELSE /\ Goto(p, "r_fill", [Count(p, "sr") EXCEPT !.rowThere = TRUE])
               /\ row' = [row EXCEPT ![p] = data]
               /\ UNCHANGED nid
       \/ Respond(p, DbError, Count(p, "sr"), "store")
    /\ UNCHANGED <<store, nextId, cache>>

\* await redis.set(f"note:{note_id}", json.dumps(dict(data))); return data
ReadFill(p) ==
    /\ pc[p] = "r_fill"
    /\ \/ /\ cache' = CacheSet(cache, nid[p], Dumps(RowKeys, row[p][1]))
          /\ Respond(p, Ok(row[p]), CountCache(p, "cw"), "none")
       \/ /\ Respond(p, ServerError, Count(p, "cw"), "cache")
          /\ UNCHANGED cache
    /\ UNCHANGED <<store, nextId>>

\* ------------------------------------------------------------ read_notes
\* return await database.fetch_all(notes.select().offset(skip).limit(take))
ListStore(p) ==
    /\ pc[p] = "l_store"
    /\ \/ \E ord \in Orderings({i \in Ids : store[i] # <<>>}) :
             Respond(p, Ok(Window(store, ord, page[p][1], page[p][2])),
                     Count(p, "sr"), "none")
       \/ Respond(p, DbError, Count(p, "sr"), "store")
    /\ UNCHANGED <<store, nextId, cache>>

\* ------------------------------------------------------------ environment
\* Redis drops the entry of note i (memory pressure, a flush, a restart).
Evict(i) ==
    /\ cache[Key(i)] # NoEntry
    /\ cache' = [cache EXCEPT ![Key(i)] = NoEntry]
    /\ last' = IF last.op # "none" THEN [last EXCEPT !.evicted = TRUE] ELSE last
    /\ resp' = NoResp
    /\ seen' = NoSeen
    /\ UNCHANGED <<store, nextId, pc, op, nid, payload, page, row, acc,
                   mode, pend, serial, sound>>
    /\ UNCHANGED avars

Next ==
    \/ \E p \in Procs :
          \/ StartCreate(p) \/ StartUpdate(p) \/ StartDelete(p)
          \/ StartRead(p) \/ StartList(p)
          \/ CreateStore(p) \/ CreateCache(p)
          \/ UpdateStore(p) \/ UpdateCache(p)
          \/ DeleteStore(p) \/ DeleteCache(p)
          \/ ReadGet(p) \/ ReadStore(p) \/ ReadFill(p)
          \/ ListStore(p)
    \/ \E i \in Ids : Evict(i)

Spec == Init /\ [][Next]_vars

\* ------------------------------------------------------------ credentials
\* The request in slot p goes on to its await l.
AGoto(p, l) ==
    /\ apc' = [apc EXCEPT ![p] = l]
    /\ aresp' = NoAResp
    /\ UNCHANGED <<aarg, now, issued>>

\* The request in slot p ends with the answer res.
ARespond(p, o, res, existed, matched, f) ==
    /\ aresp' = [NoAResp EXCEPT !.op = o, !.username = aarg[p].username,
                                !.result = res, !.existed = existed,
                                !.matched = matched, !.fault = f, !.at = now]
    /\ apc' = [apc EXCEPT ![p] = "idle"]
    /\ aarg' = [aarg EXCEPT ![p] = NoUserIn]
    /\ UNCHANGED now

\* POST /register arrives with the body `user`.
StartRegister(p) ==
    /\ apc[p] = "idle"
    /\ \E user \in UserIn : aarg' = [aarg EXCEPT ![p] = user]
    /\ apc' = [apc EXCEPT ![p] = "g_check"]
    /\ aresp' = NoAResp
    /\ UNCHANGED <<users, nextUid, now, issued, nvars>>

\* existing_user = await database.fetch_one(query); if existing_user: 400
RegisterCheck(p) ==
    /\ apc[p] = "g_check"
    /\ LET existing_user == FetchUser(users, aarg[p].username) IN
       \/ IF existing_user # <<>>
          THEN ARespond(p, "register", DuplicateUser, TRUE, FALSE, "none")
               /\ UNCHANGED issued
          ELSE AGoto(p, "g_insert")
       \/ \* fetch_one raises: nothing catches it
          ARespond(p, "register", Uncaught, existing_user # <<>>, FALSE, "store")
          /\ UNCHANGED issued
    /\ UNCHANGED <<users, nextUid, nvars>>

\* hashed_password = get_password_hash(user.password)
\* user_id = await database.execute(users.insert()...); return {...}
\* The username column is unique: the INSERT of a username that a row holds
\* raises, and nothing catches it.
RegisterInsert(p) ==
    /\ apc[p] = "g_insert"
    /\ LET existed == FetchUser(users, aarg[p].username) # <<>> IN
       \/ /\ ~existed
          /\ nextUid <= Cardinality(Usernames)
          /\ \E salt \in Salts :
                users' = users \cup
                    {[id |-> nextUid, username |-> aarg[p].username,
                      hashed_password |-> get_password_hash(aarg[p].password, salt)]}
          /\ nextUid' = nextUid + 1
          /\ ARespond(p, "register", Registered(nextUid, aarg[p].username),
                      FALSE, FALSE, "none")
       \/ /\ existed
          /\ ARespond(p, "register", Uncaught, TRUE, FALSE, "unique")
          /\ UNCHANGED <<users, nextUid>>
       \/ /\ ARespond(p, "register", Uncaught, existed, FALSE, "store")
          /\ UNCHANGED <<users, nextUid>>
    /\ UNCHANGED <<issued, nvars>>

\* POST /login arrives with the form fields username and password.
StartLogin(p) ==
    /\ apc[p] = "idle"
    /\ \E form_data \in UserIn : aarg' = [aarg EXCEPT ![p] = form_data]
    /\ apc' = [apc EXCEPT ![p] = "l_fetch"]
    /\ aresp' = NoAResp
    /\ UNCHANGED <<users, nextUid, now, issued, nvars>>

\* db_user = await database.fetch_one(query), the two checks, the token
Login(p) ==
    /\ apc[p] = "l_fetch"
    /\ LET db_user == FetchUser(users, aarg[p].username) IN
       \/ IF db_user = <<>>
          THEN /\ ARespond(p, "login", NoUserFailure, FALSE, FALSE, "none")
               /\ UNCHANGED issued
          ELSE IF ~verify_password(aarg[p].password, db_user[1].hashed_password)
          THEN /\ ARespond(p, "login", WrongPasswordFailure, TRUE, FALSE, "none")
               /\ UNCHANGED issued
          ELSE LET access_token ==
                       create_access_token([sub |-> db_user[1].username],
                                           ACCESS_TOKEN_EXPIRE_MINUTES, now)
               IN /\ ARespond(p, "login", LoggedIn(access_token), TRUE, TRUE, "none")
                  /\ issued' = [token |-> <<access_token>>,
                                sub |-> aarg[p].username, at |-> now]
       \/ /\ ARespond(p, "login", Uncaught, db_user # <<>>, FALSE, "store")
          /\ UNCHANGED issued
    /\ UNCHANGED <<users, nextUid, nvars>>

\* The token a caller presents, made of the issued one.
PresentedAs(how) ==
    CASE how = "genuine"  -> issued.token[1]
      [] how = "resigned" -> [issued.token[1] EXCEPT !.key = "k2"]
      [] how = "garbled"  -> [issued.token[1] EXCEPT !.wf = FALSE]

\* A protected request presents a token: Depends(decode_access_token).
Validate(p) ==
    /\ apc[p] = "idle"
    /\ issued # NoIssued
    /\ \E how \in {"genuine", "resigned", "garbled"} :
          LET token == PresentedAs(how) IN
          aresp' = [NoAResp EXCEPT
                      !.op = "validate", !.username = issued.sub,
                      !.how = how, !.at = now,
                      !.result = IF decode_access_token(token, now)
                                 THEN Validated(JwtPayload(token))
                                 ELSE InvalidToken]
    /\ UNCHANGED <<users, nextUid, apc, aarg, now, issued, nvars>>

\* Time passes.
Tick ==
    /\ now + ClockStep <= MaxClock
    /\ now' = now + ClockStep
    /\ aresp' = NoAResp
    /\ UNCHANGED <<users, nextUid, apc, aarg, issued, nvars>>

AuthNext ==
    \/ \E p \in Procs :
          \/ StartRegister(p) \/ RegisterCheck(p) \/ RegisterInsert(p)
          \/ StartLogin(p) \/ Login(p)
          \/ Validate(p)
    \/ Tick

AuthSpec == Init /\ [][AuthNext]_vars

\* ============================================================ claims
\* C1 as stated: after any interleaving of Create, Read, Update and Delete,
\* whenever no note operation is in progress, every cache entry that is
\* present equals the store's record of its id, and no entry exists for an
\* id the store does not hold.  (Stated for runs in which no cache call
\* failed: the interleaving alone decides it.)
C1_AnyInterleaving == (Quiescent /\ sound) => Agreement

\* What the handlers do keep (C1 restricted to runs without a race): the
\* same agreement, in every state where no note operation is in progress, as
\* long as no two requests have overlapped and no cache call has failed.
C1_Serial == (Quiescent /\ serial /\ sound) => Agreement

\* An update has just completed in a run without overlap or cache failure,
\* and its entry is in the cache.
C1_Witness ==
    /\ Quiescent /\ serial /\ sound
    /\ resp.op = "update" /\ resp.result.kind = "ok"
    /\ cache[Key(resp.id)] # NoEntry

\* ------------------------------------------------------------ C2
\* A Read of resp.id has just answered; it ran alone, and the last change of
\* that note before it was a pair of overlapping updates with different
\* payloads, both answered with success, with no other request in between.
ReadAfterTwoUpdates ==
    /\ resp.op = "read" /\ resp.mode = "solo" /\ resp.fault = "none"
    /\ resp.after.op = "update" /\ resp.after.id = resp.id
    /\ Cardinality(resp.after.notes) = 2

\* The response carries exactly one note, one of those in S.
Returns(S) ==
    /\ resp.result.kind = "ok"
    /\ Len(resp.result.body) = 1
    /\ resp.result.body[1] \in S

\* C2 as stated: once two concurrent Updates of one id have completed,
\* Read(id) returns exactly one of the two payloads, and that value is the
\* store's final record of the id.
C2_MatchesStore ==
    ReadAfterTwoUpdates =>
        /\ Returns(resp.after.notes)
        /\ resp.result.body = store[resp.id]

\* What the handlers do keep after two concurrent Updates of one id (the
\* part of C2 that survives the race): Read(id) returns exactly one of the two
\* payloads and the store's final record of the id is one of the two payloads;
\* the two are the same when the Read was served from the store (the cache
\* entry was gone).
C2_OneOfTwo ==
    ReadAfterTwoUpdates =>
        /\ Returns(resp.after.notes)
        /\ store[resp.id] # <<>> /\ store[resp.id][1] \in resp.after.notes
        /\ resp.acc.sr = 1 => resp.result.body = store[resp.id]

\* The Read after the two updates returned the payload the store does not hold.
C2_Witness ==
    /\ ReadAfterTwoUpdates
    /\ resp.result.kind = "ok"
    /\ resp.result.body # store[resp.id]

\* ------------------------------------------------------------ C3
\* C3: for Create, Update and Delete, when the store write succeeded and the
\* cache call that follows it (set or delete) failed, the operation still
\* returns its success result to the caller.
C3_CacheFailureIsolated ==
    (resp.op \in Mutations /\ resp.acc.wrote /\ resp.fault = "cache") =>
        resp.result.kind = "ok"

\* ------------------------------------------------------------ C4
\* C4: when a cache call of Read(id) fails (the lookup, or the fill after a
\* miss), the Read answers as on a cache miss: with the store's record of id
\* when there is one, with NotFoundError when there is none.
C4_CacheErrorIsMiss ==
    (resp.op = "read" /\ resp.fault = "cache") =>
        /\ resp.result.kind \in {"ok", "not_found"}
        /\ resp.mode = "solo" =>
             resp.result = IF store[resp.id] = <<>> THEN NotFound
                           ELSE Ok(store[resp.id])

\* ------------------------------------------------------------ C5
\* The request in slot p runs the store call of an Update or Delete whose id
\* is not in the store.
MissingRowStep(p) ==
    /\ pc[p] \in {"u_store", "d_store"}
    /\ FetchOne(store, nid[p]) = <<>>
    /\ pc'[p] # pc[p]

\* C5: Update(id, ...) or Delete(id) on an id that is not in the store (never
\* created, or already deleted) fails with NotFoundError, every time, and the
\* store and the whole cache are left exactly as they were: neither the
\* arrival of the request nor its store call changes them, the request ends
\* at the store call, and it has issued no cache call.  (When the store call
\* itself raises, the failure is the store's, not NotFoundError.)
C5_MissingIdUntouched ==
    [][\A p \in Procs :
          /\ (pc[p] = "idle" /\ pc'[p] \in {"u_store", "d_store"}) =>
                (store' = store /\ cache' = cache)
          /\ MissingRowStep(p) =>
                /\ store' = store /\ cache' = cache
                /\ pc'[p] = "idle"
                /\ resp'.op \in {"update", "delete"}
                /\ resp'.acc.cw = 0 /\ resp'.acc.cr = 0
                /\ resp'.fault = "none" => resp'.result = NotFound]_vars

\* A Delete of a note that was created and deleted before has just failed
\* with NotFoundError, its cache key missing.
C5_Witness ==
    /\ resp.op = "delete" /\ resp.result = NotFound
    /\ resp.id < nextId /\ ~resp.acc.rowThere
    /\ cache[Key(resp.id)] = NoEntry

\* ------------------------------------------------------------ C6
\* A Read of resp.id has just answered; it ran alone, and the last change of
\* a note before it was the operation o on the same id, which ran alone.
ReadAfter(o) ==
    /\ resp.op = "read" /\ resp.mode = "solo"
    /\ resp.after.op = o /\ resp.after.id = resp.id
    /\ Cardinality(resp.after.notes) <= 1

\* C6: after a successful Delete(id) of an existing id with no other
\* operation running concurrently, the cache key note:{id} is absent (and so
\* is the row), and a following Read(id) fails with NotFoundError (no backend
\* call of the Read raising).
C6_DeleteThenRead ==
    /\ (resp.op = "delete" /\ resp.result.kind = "ok" /\ resp.mode = "solo") =>
          (resp.acc.rowThere /\ cache[Key(resp.id)] = NoEntry /\ store[resp.id] = <<>>)
    /\ (ReadAfter("delete") /\ resp.fault = "none") =>
          (resp.result = NotFound /\ cache[Key(resp.id)] = NoEntry)

\* A Read of a note deleted just before has answered NotFoundError.
C6_Witness ==
    /\ ReadAfter("delete") /\ resp.fault = "none"
    /\ resp.result = NotFound /\ resp.acc.sr = 1

\* ------------------------------------------------------------ C7
\* C7: a successful Create followed immediately (no eviction in between) by
\* a Read of the returned id returns exactly the created Note (same id, text
\* and completed), and that Read performs zero store reads.
C7_CreateThenRead ==
    /\ (resp.op = "create" /\ resp.result.kind = "ok") =>
          /\ resp.result.body = <<NoteData(resp.payload, resp.id)>>
          /\ resp.id \in Ids
    /\ (ReadAfter("create") /\ ~resp.after.evicted /\ resp.fault = "none") =>
          /\ Returns(resp.after.notes)
          /\ resp.result.body[1].id = resp.id
          /\ resp.acc.sr = 0 /\ resp.acc.cr = 1

\* A Read right after a Create has answered with a note.
C7_Witness ==
    /\ ReadAfter("create") /\ ~resp.after.evicted /\ resp.fault = "none"
    /\ resp.result.kind = "ok"
    /\ resp.result.body[1].text = "b" /\ resp.result.body[1].completed

\* ------------------------------------------------------------ C8
\* C8: a successful Update(id, t, c) of an existing id followed by Read(id)
\* returns {id, t, c}, when the entry the Update cached is still there and
\* when it was evicted in between; in the latter case the Read goes to the
\* store and refills the cache with that note.
C8_UpdateThenRead ==
    (ReadAfter("update") /\ resp.fault = "none") =>
        /\ Returns(resp.after.notes)
        /\ resp.acc.sr = 1 =>
              /\ resp.after.evicted
              /\ cache[Key(resp.id)] # NoEntry
              /\ Loads(cache[Key(resp.id)]) = resp.result.body[1]

\* A Read after an Update whose cache entry was evicted has answered from the
\* store.
C8_Witness ==
    /\ ReadAfter("update") /\ resp.fault = "none"
    /\ resp.after.evicted /\ resp.acc.sr = 1
    /\ resp.result.kind = "ok"

\* ------------------------------------------------------------ C9
CacheSteps == {"c_cache", "u_cache", "d_cache"}

\* C9: within every Create, Update and Delete the cache mutation of an id
\* comes only after that operation's own store mutation of the id has been
\* applied: a request waits at its cache call only with its store write
\* applied, an entry changes only by the cache call of such a request (to
\* the note that request wrote to the store), by the fill of a Read (to the
\* row that Read fetched from the store), or by an eviction; so no entry
\* holds a value whose store write has not been applied.
C9_StoreBeforeCache ==
    [][/\ \A p \in Procs :
            pc[p] \in CacheSteps =>
                (acc[p].wrote /\ acc[p].sw = 1 /\ acc[p].cw = 0 /\ nid[p] \in Ids)
       /\ \A i \in Ids :
            cache'[Key(i)] # cache[Key(i)] =>
                \/ /\ cache'[Key(i)] = NoEntry
                   /\ pc' = pc
                \/ \E p \in Procs :
                      /\ nid[p] = i /\ pc'[p] = "idle"
                      /\ \/ /\ pc[p] \in {"c_cache", "u_cache"}
                            /\ acc[p].wrote
                            /\ Loads(cache'[Key(i)]) = NoteData(payload[p], i)
                         \/ /\ pc[p] = "d_cache"
                            /\ acc[p].wrote
                            /\ cache'[Key(i)] = NoEntry
                         \/ /\ pc[p] = "r_fill"
                            /\ acc[p].sr = 1 /\ acc[p].rowThere
                            /\ Loads(cache'[Key(i)]) = row[p][1]]_vars

\* An Update has applied its store write and waits at its cache call, the
\* cache still holding the older value.
C9_Witness ==
    \E p \in Procs :
        /\ pc[p] = "u_cache" /\ acc[p].wrote
        /\ cache[Key(nid[p])] # NoEntry
        /\ Loads(cache[Key(nid[p])]) # store[nid[p]][1]

\* ------------------------------------------------------------ C10
\* C10: every protected note operation (create, read, readAll, update,
\* delete) validates the token first: a request whose token fails validation
\* is answered with the authorization failure, its handler never runs, and it
\* has issued no call to the Note Store or the cache.
C10_TokenFirst ==
    /\ \A p \in Procs : Active(p) => acc[p].valid
    /\ (resp.op # "none" /\ ~resp.acc.valid) =>
          /\ resp.result = Unauthorized
          /\ resp.acc.sr = 0 /\ resp.acc.sw = 0
          /\ resp.acc.cr = 0 /\ resp.acc.cw = 0
    /\ resp.result = Unauthorized => ~resp.acc.valid

\* A Delete with an invalid token has been refused while a note is stored
\* and cached.
C10_Witness ==
    /\ resp.op = "delete" /\ resp.result = Unauthorized /\ ~resp.acc.valid
    /\ \E i \in Ids : store[i] # <<>> /\ cache[Key(i)] # NoEntry

\* ------------------------------------------------------------ C11
\* C11: validating the token that login issued for the username u, as it was
\* issued, no later than ACCESS_TOKEN_EXPIRE_MINUTES after its issue, returns
\* a payload whose subject is u; validating it after its expiry, or signed
\* with another key, or garbled, fails with the invalid-token error (401).
C11_TokenRoundTrip ==
    aresp.op = "validate" =>
        IF /\ aresp.how = "genuine"
           /\ aresp.at <= issued.at + ACCESS_TOKEN_EXPIRE_MINUTES
        THEN /\ aresp.result.status = 200
             /\ Len(aresp.result.body) = 1
             /\ aresp.result.body[1].sub = issued.sub
             /\ issued.sub \in Usernames
        ELSE /\ aresp.result.status = 401
             /\ aresp.result.detail = "Invalid or expired token"
             /\ aresp.result.body = <<>>

\* The token issued for bob has been validated some time after its issue,
\* still within its life.
C11_Witness ==
    /\ aresp.op = "validate" /\ aresp.how = "genuine"
    /\ aresp.result.status = 200
    /\ issued.sub = "bob" /\ aresp.at > issued.at

\* ------------------------------------------------------------ C12
\* C12: the users table never holds two rows with one username, and a
\* register request (no store call of which failed for a reason of the
\* store's) is answered with the duplicate-user error exactly when the
\* username was in the table, two concurrent requests for one username
\* included: one gets the new user, the other the duplicate-user error.
C12_RegistrationUnique ==
    /\ \A r1, r2 \in users : r1.username = r2.username => r1 = r2
    /\ (aresp.op = "register" /\ aresp.fault # "store") =>
          IF aresp.existed
          THEN /\ aresp.result.status = 400
               /\ aresp.result.detail = "Username already registered"
          ELSE /\ aresp.result.status = 200
               /\ aresp.result.body[1].username = aresp.username

\* ------------------------------------------------------------ C13
\* C13: a login for a username that is not in the users table and a login
\* for an existing username with a wrong password get the same answer, the
\* 400 "Incorrect username or password" (the 500 of the store's failure when
\* the lookup itself failed), and the answer carries no token.
C13_LoginIndistinguishable ==
    (aresp.op = "login" /\ ~(aresp.existed /\ aresp.matched)) =>
        /\ aresp.result.body = <<>>
        /\ aresp.result.status = (IF aresp.fault = "store" THEN 500 ELSE 400)
        /\ aresp.result.detail = (IF aresp.fault = "store"
                                  THEN "Internal Server Error"
                                  ELSE "Incorrect username or password")

\* A login for a username that is not registered has been refused while
\* another user is registered.
C13_Witness ==
    /\ aresp.op = "login" /\ aresp.fault = "none"
    /\ ~aresp.existed /\ users # {}
    /\ aresp.result.status = 400

\* ------------------------------------------------------------ C14
StoreSteps == {"c_store", "u_store", "d_store", "r_store", "l_store"}

\* C14: when the store call of Create, Update, Delete, Read (on a miss) or
\* readAll fails, the operation ends there with a server-side failure that is
\* not NotFoundError (and not a success), the failing call leaves the store
\* and the cache as they were, and the operation has issued no cache write.
C14_StoreErrorSurfaces ==
    [][\A p \in Procs :
          (pc[p] \in StoreSteps /\ pc'[p] = "idle" /\ resp'.fault = "store") =>
              /\ resp'.result.kind \in {"db_error", "server_error"}
              /\ resp'.op = op[p]
              /\ store' = store /\ cache' = cache
              /\ resp'.acc.cw = 0]_vars

\* A Read that missed the cache has been answered the store's failure while
\* the row it asked for is in the store.
C14_Witness ==
    /\ resp.op = "read" /\ resp.fault = "store"
    /\ resp.result.kind = "db_error"
    /\ resp.acc.cr = 1 /\ resp.acc.sr = 1
    /\ store[resp.id] # <<>> /\ cache[Key(resp.id)] = NoEntry

\* ------------------------------------------------------------ C15
\* C15: whatever the cache held for id before (an entry that disagreed with
\* the store included), when an Update(id) or Delete(id) completes with
\* success and no other operation on that id has overlapped it, the cache
\* entry of id equals the store's record, or is absent when the note is.
C15_WriteRestoresAgreement ==
    (resp.op \in Writes /\ resp.result.kind = "ok" /\ resp.acc.alone) =>
        Agrees(resp.id)

\* An Update of a note whose cache entry disagreed with the store has
\* completed, overlapped only by requests on other ids.
C15_Witness ==
    /\ resp.op = "update" /\ resp.result.kind = "ok"
    /\ resp.acc.alone /\ resp.acc.stale /\ resp.mode # "solo"
    /\ cache[Key(resp.id)] # NoEntry

\* ------------------------------------------------------------ C16
\* A Read of resp.id has just answered, none of its calls raising; it ran
\* alone and is the first Read answered since a Create or Update of that id,
\* running alone, had its store write applied and its cache write raise.
ReadAfterCacheFailure ==
    /\ resp.op = "read" /\ resp.mode = "solo" /\ resp.fault = "none"
    /\ resp.after.op = "cachefail" /\ resp.after.id = resp.id
    /\ resp.seen = NoSeen

\* C16: whenever the store write of a Create or Update succeeds and its cache
\* write fails, the next Read of that id returns the store's current record,
\* never an older cached value, and the cache then holds that record (as it
\* does after the cache miss and refill the claim describes).
C16_NextReadHeals ==
    ReadAfterCacheFailure =>
        /\ resp.result = Ok(store[resp.id])
        /\ cache[Key(resp.id)] # NoEntry
        /\ Loads(cache[Key(resp.id)]) = store[resp.id][1]

\* ------------------------------------------------------------ C17
\* C17: every connection a note operation acquired is released when the
\* operation ends, on success and on every error path: in the state a
\* response is sent in, the request that ended holds no open connection.
C17_ConnectionsReleased ==
    resp.op # "none" => resp.acc.conns = 0

\* ------------------------------------------------------------ C18
\* b is a page of the store: as many rows as offset(skip).limit(take) leaves
\* of the rows of the store, each of them a row of the store, no row twice.
IsStorePage(b, skip, take) ==
    LET rows == {i \in Ids : store[i] # <<>>}
        n == Cardinality(rows)
        left == IF n > skip THEN n - skip ELSE 0
    IN /\ Len(b) = (IF take < left THEN take ELSE left)
       /\ \A k \in 1..Len(b) : b[k].id \in rows /\ b[k] = store[b[k].id][1]
       /\ \A j, k \in 1..Len(b) : j # k => b[j].id # b[k].id

\* C18: readAll(skip, take) bypasses the cache: its one step leaves every
\* cache entry as it was, the request has issued no cache read and no cache
\* write and made no Redis connection, and its result is a page of the
\* store's current rows, whatever the cache holds.
C18_ListBypassesCache ==
    [][\A p \in Procs :
          (pc[p] = "l_store" /\ pc'[p] # pc[p]) =>
              /\ cache' = cache
              /\ pc'[p] = "idle" /\ resp'.op = "list"
              /\ resp'.acc.cr = 0 /\ resp'.acc.cw = 0 /\ resp'.acc.conns = 0
              /\ resp'.fault = "none" =>
                    /\ resp'.result.kind = "ok"
                    /\ IsStorePage(resp'.result.body, page[p][1], page[p][2])]_vars

\* readAll has returned the store's row of a note while the cache holds
\* another value for it.
C18_Witness ==
    /\ resp.op = "list" /\ resp.result.kind = "ok"
    /\ Len(resp.result.body) = 1
    /\ cache[Key(resp.result.body[1].id)] # NoEntry
    /\ Loads(cache[Key(resp.result.body[1].id)]) # resp.result.body[1]

\* ------------------------------------------------------------ C19
\* C19: a Read(id) that passed the token check and none of whose calls raised
\* looked the key up once.  On a
\* hit it returned the cached value with no store access and no cache write.
\* On a miss it read the store once; with no row it failed with
\* NotFoundError, writing nothing to the cache; with a row it wrote that row
\* under note:{id} and returned it (the store's record, when the Read ran
\* alone).  A second Read(id) with no operation in between is a hit that
\* returns the same Note.
C19_ReadProtocol ==
    (resp.op = "read" /\ resp.acc.valid /\ resp.fault = "none") =>
        /\ resp.acc.cr = 1 /\ resp.acc.sr \in {0, 1} /\ resp.acc.sw = 0
        /\ resp.acc.sr = 0 =>
              /\ resp.acc.cw = 0
              /\ cache[Key(resp.id)] # NoEntry
              /\ resp.result = Ok(<<Loads(cache[Key(resp.id)])>>)
        /\ resp.acc.sr = 1 =>
              IF resp.acc.rowThere
              THEN /\ resp.acc.cw = 1
                   /\ Returns(Note)
                   /\ cache[Key(resp.id)] # NoEntry
                   /\ Loads(cache[Key(resp.id)]) = resp.result.body[1]
                   /\ resp.mode = "solo" => resp.result.body = store[resp.id]
              ELSE /\ resp.result = NotFound
                   /\ resp.acc.cw = 0
                   /\ resp.mode = "solo" => cache[Key(resp.id)] = NoEntry
        /\ resp.seen.id = resp.id =>
              /\ resp.acc.sr = 0
              /\ resp.result = Ok(resp.seen.note)

\* A second Read has hit the entry that the Read before it, a miss after an
\* eviction, had filled.
C19_Witness ==
    /\ resp.op = "read" /\ resp.fault = "none"
    /\ resp.seen.id = resp.id /\ resp.acc.sr = 0
    /\ resp.after.op = "update" /\ resp.after.id = resp.id /\ resp.after.evicted

\* ------------------------------------------------------------ C20
\* C20: no step of a Read(id) or of a readAll changes a store record, and a
\* Read(id) that ends in NotFoundError has left every cache entry unchanged:
\* it has issued no cache write, and neither its lookup nor its store read
\* changed the cache.
C20_ReadsLeaveStore ==
    [][\A p \in Procs :
          (op[p] \in {"read", "list"} /\ pc'[p] # pc[p]) =>
              /\ store' = store /\ nextId' = nextId
              /\ pc[p] # "r_fill" => cache' = cache
              /\ resp'.result = NotFound =>
                    /\ pc[p] = "r_store"
                    /\ cache' = cache
                    /\ resp'.acc.cw = 0 /\ resp'.acc.sw = 0]_vars

\* A Read of an id that has no row has failed with NotFoundError while
\* another note is stored and cached.
C20_Witness ==
    /\ resp.op = "read" /\ resp.result = NotFound
    /\ cache[Key(resp.id)] = NoEntry
    /\ \E i \in Ids : store[i] # <<>> /\ cache[Key(i)] # NoEntry

====
